---------------------------- MODULE Spec2Model ----------------------------
(***************************************************************************)
(* Model of examples/plsqlrecord.js: the async function run(), which opens *)
(* a connection, creates the PL/SQL package rectest, fetches the class of  *)
(* RECTEST.RECTYPE, calls rectest.myproc with four styles of binding and   *)
(* closes the connection in a finally block.                               *)
(*                                                                         *)
(* Every awaited driver call is two steps: the call is issued (it joins    *)
(* inflight and calls) and later completes, either fulfilled or rejected   *)
(* (it leaves inflight and joins done).  A rejection transfers control to  *)
(* the catch clause of the innermost try block that encloses the await.    *)
(* The driver itself is outside the repository; a fulfilled CALL of        *)
(* rectest.myproc is modelled by the PL/SQL body the script installs.      *)
(* Only the awaited driver calls are taken to fail; console.log,           *)
(* console.error and the DbObject constructor are taken not to throw.      *)
(***************************************************************************)
EXTENDS Integers, Sequences, FiniteSets, TLC

VARIABLES
  pc,            \* position of run()
  connection,    \* let connection
  RecTypeClass,  \* const RecTypeClass
  s,             \* index of the for...of loop over stmts
  obj,           \* let obj
  binds,         \* let binds
  options,       \* let options
  result,        \* let result
  err,           \* the exception being delivered to a catch clause
  inflight,      \* driver calls issued and not yet completed
  calls,         \* driver calls in the order they were issued
  done,          \* completed driver calls, with their outcome
  stdout,        \* what console.log printed
  stderr,        \* what console.error printed
  outcome        \* state of the promise returned by run()

vars == << pc, connection, RecTypeClass, s, obj, binds, options, result, err,
           inflight, calls, done, stdout, stderr, outcome >>

locals == << connection, RecTypeClass, s, obj, binds, options, result >>

-----------------------------------------------------------------------------
(* Values of the script *)

undefined == [undefined |-> TRUE]

stmts == << "CREATE OR REPLACE PACKAGE rectest", "CREATE OR REPLACE PACKAGE BODY rectest" >>

TypeName == "RECTEST.RECTYPE"

BIND_OUT == "BIND_OUT"

ShipRec == [NAME |-> "Ship", POS |-> 12]

PlaneRec == [NAME |-> "Plane", POS |-> 34]

CarRec == [NAME |-> "Car", POS |-> 56]

ManyRecs == << [NAME |-> "Train", POS |-> 78], [NAME |-> "Bike", POS |-> 83] >>

LabelConstructor == [text |-> "Using the constructor to create an object:"]

LabelDirect == [text |-> "\nBinding the record values directly:"]

LabelMany == [text |-> "\nExample with executeMany():"]

-----------------------------------------------------------------------------
(* The driver, as far as the script relies on it *)

\* the class that getDbObjectClass(name) resolves to
ClassOf(name) == IF name = TypeName THEN "DbObjectClass RECTEST.RECTYPE" ELSE "undefined"

\* new RecTypeClass({...}): an instance carrying its class and the attributes
NewObject(cls, attrs) == [class |-> cls, NAME |-> attrs.NAME, POS |-> attrs.POS]

\* a bind type is a class or the qualified name of one
ResolveType(t) == IF t = TypeName THEN ClassOf(TypeName) ELSE t

\* the object an input bind sends: an instance as it is, or {type, val}
InObject(inbv) ==
  IF "val" \in DOMAIN inbv
    THEN NewObject(ResolveType(inbv.type), inbv.val)
    ELSE inbv

\* myproc without the statement p_out.pos := p_out.pos * 2
myprocNoDouble(p_in) ==
  LET p_out == p_in
  IN  p_out

\* PROCEDURE myproc (p_in IN rectype, p_out OUT rectype)
myproc(p_in) ==
  LET p_out == p_in
  IN  [p_out EXCEPT !.POS = p_out.POS * 2]

\* the record of a database object, without its class
Attrs(o) == [NAME |-> o.NAME, POS |-> o.POS]

\* connection.execute(plsql, binds) when it is fulfilled
execute(b) ==
  [outBinds |-> [outbv |-> NewObject(b.outbv.type, Attrs(myproc(InObject(b.inbv))))]]

\* connection.executeMany(plsql, binds, options) when it is fulfilled:
\* one row of out binds per row of binds, in the order of the rows
executeMany(rows, opts) ==
  [outBinds |->
     [k \in 1..Len(rows) |->
        [outbv |-> NewObject(opts.bindDefs.outbv.type,
                     Attrs(myproc(NewObject(opts.bindDefs.inbv.type, rows[k].inbv))))]]]

Error(call) == [error |-> call]

-----------------------------------------------------------------------------
(* Control flow *)

\* the try block around connection.execute(s) left out
HandlerNoStmtTry(p) ==
  CASE p = "await_close" -> "catch_close"
    [] p \in {"await_getConnection", "await_stmt", "await_getDbObjectClass",
              "await_execute1", "await_execute2", "await_execute3",
              "await_executeMany"} -> "catch"
    [] OTHER -> "none"

\* the try block around connection.close() left out
HandlerNoCloseTry(p) ==
  CASE p = "await_stmt"  -> "catch_stmt"
    [] p \in {"await_getConnection", "await_getDbObjectClass", "await_execute1",
              "await_execute2", "await_execute3", "await_executeMany"} -> "catch"
    [] OTHER -> "none"

\* the catch clause that receives a rejection raised at position p
Handler(p) ==
  CASE p = "await_stmt"  -> "catch_stmt"
    [] p = "await_close" -> "catch_close"
    [] p \in {"await_getConnection", "await_getDbObjectClass", "await_execute1",
              "await_execute2", "await_execute3", "await_executeMany"} -> "catch"
    [] OTHER -> "none"

Issue(c) ==
  /\ inflight' = inflight \cup {c}
  /\ calls' = Append(calls, c)
  /\ UNCHANGED done

\* completion of driver call c; control resumes at next when it is fulfilled
Settle(c, ok, next) ==
  /\ c \in inflight
  /\ inflight' = inflight \ {c}
  /\ done' = Append(done, [call |-> c, ok |-> ok])
  /\ UNCHANGED calls
  /\ IF ok
       THEN /\ pc' = next
            /\ UNCHANGED << err, outcome >>
       ELSE /\ err' = Error(c)
            /\ IF Handler(pc) = "none"
                 THEN pc' = "done" /\ outcome' = "rejected"
                 ELSE pc' = Handler(pc) /\ UNCHANGED outcome

Init ==
  /\ pc = "start"
  /\ connection = undefined
  /\ RecTypeClass = "undefined"
  /\ s = 0
  /\ obj = undefined
  /\ binds = undefined
  /\ options = undefined
  /\ result = undefined
  /\ err = undefined
  /\ inflight = {}
  /\ calls = << >>
  /\ done = << >>
  /\ stdout = << >>
  /\ stderr = << >>
  /\ outcome = "pending"

\* connection = await oracledb.getConnection(dbConfig)
CallGetConnection ==
  /\ pc = "start"
  /\ pc' = "await_getConnection"
  /\ Issue("getConnection")
  /\ UNCHANGED << locals, err, stdout, stderr, outcome >>

ReturnGetConnection ==
  /\ pc = "await_getConnection"
  /\ \E ok \in BOOLEAN :
       /\ Settle("getConnection", ok, "stmts")
       /\ IF ok
            THEN connection' = [connection |-> TRUE] /\ s' = 1
            ELSE UNCHANGED << connection, s >>
  /\ UNCHANGED << RecTypeClass, obj, binds, options, result, stdout, stderr >>

\* connection.execute(s) without await: the loop goes on at once
CallExecuteStmtNoAwait ==
  /\ pc = "stmts"
  /\ s <= Len(stmts)
  /\ s' = s + 1
  /\ Issue(stmts[s])
  /\ UNCHANGED << pc, connection, RecTypeClass, obj, binds, options, result,
                  err, stdout, stderr, outcome >>

\* for (const s of stmts) { try { await connection.execute(s) } ... }
CallExecuteStmt ==
  /\ pc = "stmts"
  /\ s <= Len(stmts)
  /\ pc' = "await_stmt"
  /\ Issue(stmts[s])
  /\ UNCHANGED << locals, err, stdout, stderr, outcome >>

ReturnExecuteStmt ==
  /\ pc = "await_stmt"
  /\ \E ok \in BOOLEAN :
       /\ Settle(stmts[s], ok, "stmts")
       /\ IF ok THEN s' = s + 1 ELSE UNCHANGED s
  /\ UNCHANGED << connection, RecTypeClass, obj, binds, options, result, stdout, stderr >>

\* catch (e) { console.error(e); } inside the loop, then the next statement
CatchStmt ==
  /\ pc = "catch_stmt"
  /\ stderr' = Append(stderr, err)
  /\ s' = s + 1
  /\ pc' = "stmts"
  /\ UNCHANGED << connection, RecTypeClass, obj, binds, options, result, err,
                  inflight, calls, done, stdout, outcome >>

\* the class requested before the loop over stmts has ended
CallGetDbObjectClassEarly ==
  /\ pc = "stmts"
  /\ s >= Len(stmts)
  /\ pc' = "await_getDbObjectClass"
  /\ Issue("getDbObjectClass")
  /\ UNCHANGED << locals, err, stdout, stderr, outcome >>

\* const RecTypeClass = await connection.getDbObjectClass("RECTEST.RECTYPE")
CallGetDbObjectClass ==
  /\ pc = "stmts"
  /\ s > Len(stmts)
  /\ pc' = "await_getDbObjectClass"
  /\ Issue("getDbObjectClass")
  /\ UNCHANGED << locals, err, stdout, stderr, outcome >>

ReturnGetDbObjectClass ==
  /\ pc = "await_getDbObjectClass"
  /\ \E ok \in BOOLEAN :
       /\ Settle("getDbObjectClass", ok, "bind1")
       /\ IF ok
            THEN RecTypeClass' = ClassOf(TypeName)
            ELSE UNCHANGED RecTypeClass
  /\ UNCHANGED << connection, s, obj, binds, options, result, stdout, stderr >>

\* obj = new RecTypeClass(...); binds = {inbv: obj, ...}; await execute
CallExecute1 ==
  /\ pc = "bind1"
  /\ stdout' = Append(stdout, LabelConstructor)
  /\ obj' = NewObject(RecTypeClass, ShipRec)
  /\ binds' = [inbv |-> obj', outbv |-> [type |-> RecTypeClass, dir |-> BIND_OUT]]
  /\ pc' = "await_execute1"
  /\ Issue("execute1")
  /\ UNCHANGED << connection, RecTypeClass, s, options, result, err, stderr, outcome >>

\* result = await connection.execute(plsql, binds); console.log(...)
ReturnExecute1 ==
  /\ pc = "await_execute1"
  /\ \E ok \in BOOLEAN :
       /\ Settle("execute1", ok, "bind2")
       /\ IF ok
            THEN /\ result' = execute(binds)
                 /\ stdout' = Append(stdout, result'.outBinds.outbv)
            ELSE UNCHANGED << result, stdout >>
  /\ UNCHANGED << connection, RecTypeClass, s, obj, binds, options, stderr >>

\* binds = {inbv: {type: RecTypeClass, val: {...}}, ...}; await execute
CallExecute2 ==
  /\ pc = "bind2"
  /\ stdout' = Append(stdout, LabelDirect)
  /\ binds' = [inbv |-> [type |-> RecTypeClass, val |-> PlaneRec],
               outbv |-> [type |-> RecTypeClass, dir |-> BIND_OUT]]
  /\ pc' = "await_execute2"
  /\ Issue("execute2")
  /\ UNCHANGED << connection, RecTypeClass, s, obj, options, result, err, stderr, outcome >>

ReturnExecute2 ==
  /\ pc = "await_execute2"
  /\ \E ok \in BOOLEAN :
       /\ Settle("execute2", ok, "bind3")
       /\ IF ok
            THEN /\ result' = execute(binds)
                 /\ stdout' = Append(stdout, result'.outBinds.outbv)
            ELSE UNCHANGED << result, stdout >>
  /\ UNCHANGED << connection, RecTypeClass, s, obj, binds, options, stderr >>

\* binds = {inbv: {type: "RECTEST.RECTYPE", val: {...}}, ...}; await execute
CallExecute3 ==
  /\ pc = "bind3"
  /\ binds' = [inbv |-> [type |-> TypeName, val |-> CarRec],
               outbv |-> [type |-> RecTypeClass, dir |-> BIND_OUT]]
  /\ pc' = "await_execute3"
  /\ Issue("execute3")
  /\ UNCHANGED << connection, RecTypeClass, s, obj, options, result, err,
                  stdout, stderr, outcome >>

ReturnExecute3 ==
  /\ pc = "await_execute3"
  /\ \E ok \in BOOLEAN :
       /\ Settle("execute3", ok, "bindMany")
       /\ IF ok
            THEN /\ result' = execute(binds)
                 /\ stdout' = Append(stdout, result'.outBinds.outbv)
            ELSE UNCHANGED << result, stdout >>
  /\ UNCHANGED << connection, RecTypeClass, s, obj, binds, options, stderr >>

\* binds = [{inbv: ...}, {inbv: ...}]; options = {bindDefs: ...}; await executeMany
CallExecuteMany ==
  /\ pc = "bindMany"
  /\ stdout' = Append(stdout, LabelMany)
  /\ binds' = [k \in 1..Len(ManyRecs) |-> [inbv |-> ManyRecs[k]]]
  /\ options' = [bindDefs |-> [inbv |-> [type |-> RecTypeClass],
                               outbv |-> [type |-> RecTypeClass, dir |-> BIND_OUT]]]
  /\ pc' = "await_executeMany"
  /\ Issue("executeMany")
  /\ UNCHANGED << connection, RecTypeClass, s, obj, result, err, stderr, outcome >>

\* the out binds printed from the last one to the first
PrintAllReversed(outBinds) ==
  [k \in 1..Len(outBinds) |-> outBinds[Len(outBinds) + 1 - k].outbv]

\* for (const b of result.outBinds) console.log(b.outbv)
PrintAll(outBinds) == [k \in 1..Len(outBinds) |-> outBinds[k].outbv]

ReturnExecuteMany ==
  /\ pc = "await_executeMany"
  /\ \E ok \in BOOLEAN :
       /\ Settle("executeMany", ok, "finally")
       /\ IF ok
            THEN /\ result' = executeMany(binds, options)
                 /\ stdout' = stdout \o PrintAll(result'.outBinds)
            ELSE UNCHANGED << result, stdout >>
  /\ UNCHANGED << connection, RecTypeClass, s, obj, binds, options, stderr >>

\* a catch clause that logs and goes on with the batched call
CatchResume ==
  /\ pc = "catch"
  /\ stderr' = Append(stderr, err)
  /\ pc' = IF connection # undefined /\ err # Error("executeMany")
             THEN "bindMany" ELSE "finally"
  /\ UNCHANGED << locals, err, inflight, calls, done, stdout, outcome >>

\* catch (err) { console.error(err); }
Catch ==
  /\ pc = "catch"
  /\ stderr' = Append(stderr, err)
  /\ pc' = "finally"
  /\ UNCHANGED << locals, err, inflight, calls, done, stdout, outcome >>

\* close() at the end of the try block instead of in finally
FinallyOnSuccessOnly ==
  /\ pc = "finally"
  /\ IF connection # undefined /\ stderr = << >>
       THEN /\ pc' = "await_close"
            /\ Issue("close")
       ELSE /\ pc' = "return"
            /\ UNCHANGED << inflight, calls, done >>
  /\ UNCHANGED << locals, err, stdout, stderr, outcome >>

\* finally without the test if (connection)
FinallyNoTest ==
  /\ pc = "finally"
  /\ pc' = "await_close"
  /\ Issue("close")
  /\ UNCHANGED << locals, err, stdout, stderr, outcome >>

\* finally { if (connection) { try { await connection.close() } ... } }
Finally ==
  /\ pc = "finally"
  /\ IF connection # undefined
       THEN /\ pc' = "await_close"
            /\ Issue("close")
       ELSE /\ pc' = "return"
            /\ UNCHANGED << inflight, calls, done >>
  /\ UNCHANGED << locals, err, stdout, stderr, outcome >>

ReturnClose ==
  /\ pc = "await_close"
  /\ \E ok \in BOOLEAN :
       /\ Settle("close", ok, "return")
  /\ UNCHANGED << locals, stdout, stderr >>

\* a close error that takes the place of what was logged before
CatchCloseReplace ==
  /\ pc = "catch_close"
  /\ stderr' = << err >>
  /\ pc' = "return"
  /\ UNCHANGED << locals, err, inflight, calls, done, stdout, outcome >>

\* catch (err) { console.error(err); } around close()
CatchClose ==
  /\ pc = "catch_close"
  /\ stderr' = Append(stderr, err)
  /\ pc' = "return"
  /\ UNCHANGED << locals, err, inflight, calls, done, stdout, outcome >>

\* the end of run(): the promise it returned is fulfilled
Return ==
  /\ pc = "return"
  /\ pc' = "done"
  /\ outcome' = "fulfilled"
  /\ UNCHANGED << locals, err, inflight, calls, done, stdout, stderr >>

Next ==
  \/ CallGetConnection
  \/ ReturnGetConnection
  \/ CallExecuteStmt
  \/ ReturnExecuteStmt
  \/ CatchStmt
  \/ CallGetDbObjectClass
  \/ ReturnGetDbObjectClass
  \/ CallExecute1
  \/ ReturnExecute1
  \/ CallExecute2
  \/ ReturnExecute2
  \/ CallExecute3
  \/ ReturnExecute3
  \/ CallExecuteMany
  \/ ReturnExecuteMany
  \/ Catch
  \/ Finally
  \/ ReturnClose
  \/ CatchClose
  \/ Return

Spec == Init /\ [][Next]_vars

-----------------------------------------------------------------------------
(* Properties *)

Count(seq, x) == Cardinality({k \in 1..Len(seq) : seq[k] = x})

Succeeded(c) == \E k \in 1..Len(done) : done[k].call = c /\ done[k].ok

Failed(c) == \E k \in 1..Len(done) : done[k].call = c /\ ~done[k].ok

\* the calls of the main sequence, whose failure the outer catch receives
MainCalls == {"getDbObjectClass", "execute1", "execute2", "execute3", "executeMany"}

\* the order of the driver calls in the text of run(), close() apart
Order ==
  << "getConnection", stmts[1], stmts[2], "getDbObjectClass",
     "execute1", "execute2", "execute3", "executeMany" >>

IsPrefix(a, b) == Len(a) <= Len(b) /\ \A k \in 1..Len(a) : a[k] = b[k]

\* the errors of the failed calls, in the order the calls failed
RECURSIVE FailureLog(_)
FailureLog(d) ==
  IF d = << >> THEN << >>
  ELSE LET rest == FailureLog(SubSeq(d, 1, Len(d) - 1))
           last == d[Len(d)]
       IN  IF last.ok THEN rest ELSE Append(rest, Error(last.call))

\* C1: getConnection is called exactly once per run, close() is never called
\* more than once, and when run() has finished after a successful
\* getConnection, close() has been called exactly once and has completed,
\* whatever calls failed in between.
C1_ReleasedExactlyOnce ==
  /\ Count(calls, "getConnection") = (IF pc = "start" THEN 0 ELSE 1)
  /\ Count(calls, "close") <= 1
  /\ (pc = "done" /\ Succeeded("getConnection")) =>
        /\ Count(calls, "close") = 1
        /\ Count([k \in 1..Len(done) |-> done[k].call], "close") = 1

C1_Witness ==
  /\ pc = "done"
  /\ Succeeded("getConnection")
  /\ Failed("execute2")
  /\ Count(calls, "close") = 1

\* C2: once getConnection has failed, it is the only driver call of the run
\* (no execute, getDbObjectClass, executeMany or close), and the error is
\* logged once: from the finally block on, stderr holds that error alone.
C2_NoCallAfterFailedConnect ==
  Failed("getConnection") =>
    /\ calls = << "getConnection" >>
    /\ inflight = {}
    /\ stderr = (IF pc = "catch" THEN << >> ELSE << Error("getConnection") >>)

C2_Witness ==
  /\ pc = "done"
  /\ Failed("getConnection")
  /\ outcome = "fulfilled"

\* C3: whenever run() has finished after a successful getConnection, both
\* DDL statements were attempted exactly once, in order, then
\* getDbObjectClass was called; each failed statement is logged once.
C3_SetupIndependent ==
  /\ \A k \in 1..Len(stmts) : Count(calls, stmts[k]) <= 1
  /\ (pc = "done" /\ Succeeded("getConnection")) =>
        /\ Len(calls) >= 4
        /\ SubSeq(calls, 1, 4) =
             << "getConnection", stmts[1], stmts[2], "getDbObjectClass" >>
        /\ \A k \in 1..Len(stmts) :
             Count(stderr, Error(stmts[k])) = (IF Failed(stmts[k]) THEN 1 ELSE 0)

C3_Witness ==
  /\ pc = "done"
  /\ Failed(stmts[1])
  /\ Succeeded(stmts[2])
  /\ Succeeded("getDbObjectClass")

\* C4: after a failed call of the main sequence, the only driver call that
\* is issued is close(), and it has been issued when run() has finished.
C4_MainFailureAborts ==
  \A k \in 1..Len(done) :
    (done[k].call \in MainCalls /\ ~done[k].ok) =>
       /\ Len(calls) <= k + 1
       /\ Len(calls) = k + 1 => calls[k + 1] = "close"
       /\ pc = "done" => Len(calls) = k + 1

C4_Witness ==
  /\ pc = "done"
  /\ Failed("execute1")
  /\ calls[Len(calls)] = "close"

\* C5: the promise of run() is never rejected, and it is fulfilled when
\* run() has finished, also when close() failed.
C5_NothingPropagates ==
  /\ outcome # "rejected"
  /\ pc = "done" => outcome = "fulfilled"

C5_Witness ==
  /\ pc = "done"
  /\ Failed("close")
  /\ Failed("executeMany")
  /\ Failed(stmts[2])

\* C6: at most one driver call is outstanding, and a call is issued only
\* when all calls before it have completed: the completed calls are the
\* issued ones in the same order, short of the outstanding one.
C6_OneCallAtATime ==
  /\ Cardinality(inflight) <= 1
  /\ Len(calls) = Len(done) + Cardinality(inflight)
  /\ \A k \in 1..Len(done) : k <= Len(calls) /\ done[k].call = calls[k]
  /\ inflight # {} => inflight = {calls[Len(calls)]}

C6_Witness ==
  /\ inflight = {"executeMany"}
  /\ Len(done) = 7

\* C7: the record received in the output binding has the NAME that was
\* sent and twice the POS that was sent, for the constructed instance, the
\* value with the class, the value with the type name and the batched call.
C7_OutputDoubled ==
  /\ pc = "bind2" =>
       /\ result.outBinds.outbv.NAME = ShipRec.NAME
       /\ result.outBinds.outbv.POS = 2 * ShipRec.POS
  /\ pc = "bind3" =>
       /\ result.outBinds.outbv.NAME = PlaneRec.NAME
       /\ result.outBinds.outbv.POS = 2 * PlaneRec.POS
  /\ pc = "bindMany" =>
       /\ result.outBinds.outbv.NAME = CarRec.NAME
       /\ result.outBinds.outbv.POS = 2 * CarRec.POS
  /\ Succeeded("executeMany") =>
       \A k \in 1..Len(ManyRecs) :
         /\ result.outBinds[k].outbv.NAME = ManyRecs[k].NAME
         /\ result.outBinds[k].outbv.POS = 2 * ManyRecs[k].POS

C7_Witness ==
  /\ Succeeded("execute1")
  /\ Succeeded("execute2")
  /\ Succeeded("execute3")
  /\ Succeeded("executeMany")
  /\ result.outBinds[1].outbv.POS = 156

\* C8: a fulfilled executeMany gives one output record per input row,
\* Train/156 then Bike/166, and these are the last two things printed, in
\* that order.
C8_BatchOrderPreserved ==
  Succeeded("executeMany") =>
    /\ Len(result.outBinds) = 2
    /\ Attrs(result.outBinds[1].outbv) = [NAME |-> "Train", POS |-> 156]
    /\ Attrs(result.outBinds[2].outbv) = [NAME |-> "Bike", POS |-> 166]
    /\ Len(stdout) >= 3
    /\ stdout[Len(stdout) - 2] = LabelMany
    /\ Attrs(stdout[Len(stdout) - 1]) = [NAME |-> "Train", POS |-> 156]
    /\ Attrs(stdout[Len(stdout)]) = [NAME |-> "Bike", POS |-> 166]

C8_Witness ==
  /\ pc = "done"
  /\ Succeeded("executeMany")
  /\ Len(stdout) = 8
  /\ stdout[7].NAME = "Train"
  /\ stdout[8].NAME = "Bike"

\* C9: outside the catch clauses, stderr holds exactly the errors of the
\* failed driver calls, each once, in the order the calls failed; a close
\* error is appended after the earlier errors and replaces none.
C9_EveryFailureLogged ==
  /\ pc \notin {"catch", "catch_stmt", "catch_close"} => stderr = FailureLog(done)
  /\ pc \in {"catch", "catch_stmt", "catch_close"} =>
       FailureLog(done) = Append(stderr, err)

C9_Witness ==
  /\ pc = "done"
  /\ Failed("execute3")
  /\ Failed("close")
  /\ stderr = << Error("execute3"), Error("close") >>

\* the driver calls issued so far, a final close() left out
Body == IF calls # << >> /\ calls[Len(calls)] = "close"
          THEN SubSeq(calls, 1, Len(calls) - 1)
          ELSE calls

\* C10: the driver calls are an initial segment of Order, followed by
\* close() at most; close() is issued only after a successful
\* getConnection and is the last call; when run() has finished, close()
\* was called iff getConnection succeeded, and a segment shorter than
\* Order ends with a failed call that is not a DDL statement.
C10_FixedCallOrder ==
  /\ IsPrefix(Body, Order)
  /\ Count(calls, "close") = Len(calls) - Len(Body)
  /\ Count(calls, "close") = 1 => Succeeded("getConnection")
  /\ pc = "done" =>
       /\ Count(calls, "close") = 1 <=> Succeeded("getConnection")
       /\ Len(Body) < Len(Order) =>
            /\ Failed(Body[Len(Body)])
            /\ Body[Len(Body)] \notin {stmts[1], stmts[2]}
       /\ Len(Body) = Len(Order) =>
            \A k \in 1..(Len(Order) - 1) :
              Failed(Order[k]) => Order[k] \in {stmts[1], stmts[2]}

C10_Witness ==
  /\ pc = "done"
  /\ calls = Append(Order, "close")
  /\ Failed(stmts[1])
  /\ Failed(stmts[2])

=============================================================================
